---- MODULE Spec2Model ----
(***************************************************************************)
(* A model of idsteamed (src/main.go): a list of game names is resolved    *)
(* against the Steam store search API by a pool of worker goroutines; each *)
(* resolved id is written to <output>/<sanitized name>.steam; main tallies *)
(* the results it receives from the result channel.                        *)
(*                                                                         *)
(* Strings are sequences of one-character strings, so that sanitizing,     *)
(* formatting and scanning are computed character by character.            *)
(***************************************************************************)
EXTENDS Integers, Sequences, FiniteSets, TLC

\* ------------------------------------------------------------------ bounds
\* Longest input list (number of non-blank lines of the input file).
MaxN == 2
\* Largest value given to the -workers flag.
MaxWorkers == 2

\* ------------------------------------------------------- characters, text
LowerCase == {"a", "b", "c", "d", "e", "f", "g", "h", "i", "j", "k", "l", "m",
              "n", "o", "p", "q", "r", "s", "t", "u", "v", "w", "x", "y", "z"}
UpperCase == {"A", "B", "C", "D", "E", "F", "G", "H", "I", "J", "K", "L", "M",
              "N", "O", "P", "Q", "R", "S", "T", "U", "V", "W", "X", "Y", "Z"}
DigitSeq == <<"0", "1", "2", "3", "4", "5", "6", "7", "8", "9">>
DigitChars == {DigitSeq[i] : i \in 1..10}

\* regexp class \s of line 157: [\t\n\f\r ]
WhiteSpace == {" ", "\t", "\n", "\f", "\r"}

\* main.go:145-148
isValidChar(char) ==
    \/ char \in LowerCase
    \/ char \in UpperCase
    \/ char \in DigitChars
    \/ char = " " \/ char = "-" \/ char = "_"

\* main.go:144-154: every invalid character becomes an underscore
ReplaceInvalid(gameName) ==
    [i \in 1..Len(gameName) |->
        IF isValidChar(gameName[i]) THEN gameName[i] ELSE "_"]

\* the characters matched by [_\s] (main.go:157)
IsSpaceUnderscore(char) == char = "_" \/ char \in WhiteSpace

\* main.go:157-158: ReplaceAllString([_\s]+, "_"): each maximal run of
\* underscores and white space becomes one underscore
RECURSIVE CollapseRuns(_)
CollapseRuns(s) ==
    IF s = <<>> THEN <<>>
    ELSE IF IsSpaceUnderscore(Head(s))
         THEN IF Len(s) > 1 /\ IsSpaceUnderscore(s[2])
              THEN CollapseRuns(Tail(s))
              ELSE <<"_">> \o CollapseRuns(Tail(s))
         ELSE <<Head(s)>> \o CollapseRuns(Tail(s))

\* main.go:161: strings.Trim(cleaned, "_")
RECURSIVE TrimLeft(_)
TrimLeft(s) ==
    IF s # <<>> /\ Head(s) = "_" THEN TrimLeft(Tail(s)) ELSE s

RECURSIVE TrimRight(_)
TrimRight(s) ==
    IF s # <<>> /\ s[Len(s)] = "_" THEN TrimRight(SubSeq(s, 1, Len(s) - 1)) ELSE s

\* A trim of the front only (mutation of TrimUnderscores).
TrimLeadingOnly(s) == TrimLeft(s)

TrimUnderscores(s) == TrimRight(TrimLeft(s))

\* A sanitizer that trims before it collapses (mutation of
\* sanitizeFilename).
sanitizeTrimFirst(gameName) ==
    CollapseRuns(TrimUnderscores(ReplaceInvalid(gameName)))

\* main.go:141-164
sanitizeFilename(gameName) ==
    TrimUnderscores(CollapseRuns(ReplaceInvalid(gameName)))

\* ------------------------------------------- fmt.Sprintf / fmt.Sscanf "%d"
RECURSIVE NatDigits(_)
NatDigits(n) ==
    IF n < 10 THEN <<DigitSeq[n + 1]>>
    ELSE NatDigits(n \div 10) \o <<DigitSeq[(n % 10) + 1]>>

\* main.go:204: fmt.Sprintf("%d", gameID)
FormatInt(n) == IF n < 0 THEN <<"-">> \o NatDigits(0 - n) ELSE NatDigits(n)

DigitValue(char) == CHOOSE d \in 0..9 : DigitSeq[d + 1] = char

RECURSIVE SkipSpace(_)
SkipSpace(s) ==
    IF s # <<>> /\ Head(s) \in {" ", "\t", "\r"} THEN SkipSpace(Tail(s)) ELSE s

\* the value of the longest prefix of digits of s, continuing from acc
RECURSIVE ScanDigits(_, _)
ScanDigits(s, acc) ==
    IF s # <<>> /\ Head(s) \in DigitChars
    THEN ScanDigits(Tail(s), acc * 10 + DigitValue(Head(s)))
    ELSE acc

\* main.go:182: fmt.Sscanf(content, "%d", &existingGameID): leading blanks
\* are skipped, then an optional sign and at least one digit are read; what
\* follows the digits is ignored.  [ok, value]
Sscanf(content) ==
    LET s == SkipSpace(content)
        signed == s # <<>> /\ Head(s) \in {"+", "-"}
        body == IF signed THEN Tail(s) ELSE s
        neg == signed /\ Head(s) = "-"
    IN  IF body = <<>> \/ Head(body) \notin DigitChars
        THEN [ok |-> FALSE, value |-> 0]
        ELSE [ok |-> TRUE,
              value |-> IF neg THEN 0 - ScanDigits(body, 0) ELSE ScanDigits(body, 0)]

\* ---------------------------------------------------------- the remote API
\* The names of the input lines of the model.  "a" and "a:" are different
\* names with one sanitized key; "b" has a key of its own.
Names == {<<"a">>, <<"a", ":">>, <<"b">>}

\* The catalogue behind the search endpoint: the id of the best match.
CatalogId(gameName) ==
    CASE gameName = <<"a">> -> 12
      [] gameName = <<"a", ":">> -> 400
      [] OTHER -> 7

\* What one GET of the search endpoint can come back with (main.go:72-106):
\* a transport failure, or a status code with a body that arrives or not,
\* that is JSON or not, whose "items" are a list of ids, best match first.
\* netErr: Get returned an error; bodyErr: reading the body returns an error.
Response(netErr, status, bodyErr, json, items) ==
    [netErr |-> netErr, status |-> status, bodyErr |-> bodyErr, json |-> json,
     items |-> items]

Responses(gameName) ==
    { Response(TRUE, 0, FALSE, FALSE, <<>>),
      Response(FALSE, 500, FALSE, TRUE, <<CatalogId(gameName)>>),
      Response(FALSE, 200, TRUE, TRUE, <<CatalogId(gameName)>>),
      Response(FALSE, 200, FALSE, FALSE, <<>>),
      Response(FALSE, 200, FALSE, TRUE, <<>>),
      Response(FALSE, 200, FALSE, TRUE, <<CatalogId(gameName), 999>>) }

\* An error is a sequence of strings (the message); nil is the empty one.
nil == <<>>

\* A resolver that parses the body before it looks at the status (mutation
\* of findSteamGameID).
findSteamGameIDParsesFirst(gameName, resp) ==
    IF gameName = <<>> THEN [id |-> 0, err |-> <<"empty game name">>]
    ELSE IF resp.netErr \/ resp.bodyErr THEN [id |-> 0, err |-> <<"network">>]
    ELSE IF ~resp.json THEN [id |-> 0, err |-> <<"decode">>]
    ELSE IF resp.status # 200
         THEN [id |-> 0, err |-> <<"HTTP error: ">> \o FormatInt(resp.status)]
    ELSE IF Len(resp.items) > 0 THEN [id |-> resp.items[1], err |-> nil]
    ELSE [id |-> 0, err |-> <<"no results found">>]

\* main.go:51-138, given the response to its one request.  [id, err]
\* The errors of Get (main.go:77) and of io.ReadAll (main.go:101) are both
\* the connection's, returned as they are: one value stands for them.
findSteamGameID(gameName, resp) ==
    IF gameName = <<>> THEN [id |-> 0, err |-> <<"empty game name">>]
    ELSE IF resp.netErr THEN [id |-> 0, err |-> <<"network">>]
    ELSE IF resp.status # 200
         THEN [id |-> 0, err |-> <<"HTTP error: ">> \o FormatInt(resp.status)]
    ELSE IF resp.bodyErr THEN [id |-> 0, err |-> <<"network">>]
    ELSE IF ~resp.json THEN [id |-> 0, err |-> <<"decode">>]
    ELSE IF Len(resp.items) > 0 THEN [id |-> resp.items[1], err |-> nil]
    ELSE [id |-> 0, err |-> <<"no results found">>]

\* ------------------------------------------------------- the output folder
Keys == {sanitizeFilename(n) : n \in Names}

NoFile == [exists |-> FALSE, data |-> <<>>]
File(data) == [exists |-> TRUE, data |-> data]

\* What a .steam file of the output folder may hold before the first run:
\* nothing (no file), an id, or text that is no number.
InitialFiles == {NoFile, File(<<"7">>), File(<<"x">>)}

\* os.WriteFile (main.go:205) opens with O_WRONLY|O_CREATE|O_TRUNC ...
OpenTruncate(file) == File(<<>>)

\* ... and then writes the bytes at offset 0 of what the file holds by then.
WriteAtStart(file, bytes) ==
    File(bytes \o SubSeq(file.data, Len(bytes) + 1, Len(file.data)))

\* -------------------------------------------------------------- the state
VARIABLES
    gameNames,         \* main.go:277 the non-blank input lines, in order
    workerCountFlag,   \* main.go:231 -workers
    skipExistingFlag,  \* main.go:232 -skip-existing
    files,             \* the .steam files of the output folder, by key
    mainPC,            \* where main is
    started,           \* main.go:312 the loop variable i: workers started
    wgCount,           \* main.go:311 the WaitGroup counter
    jobQueue,          \* main.go:307 buffered channel, holds input positions
    jobClosed,         \* close(jobQueue) was executed
    dispatcherPC,      \* main.go:318-323 the sending goroutine
    dispatched,        \* how many names it has sent
    resultQueue,       \* main.go:308 buffered channel of GameResult
    resultClosed,      \* close(resultQueue) was executed
    closerPC,          \* main.go:326-329 the closing goroutine
    worker,            \* the worker goroutines: pc, job, gameID, err, result
    completedCount,    \* main.go:335
    successCount,      \* main.go:332
    failedCount,       \* main.go:333
    failedGameNames,   \* main.go:334
    panicked,          \* a send on a closed channel has crashed the process
    run,               \* 1: the first run of the program, 2: the run after it
    filesBefore,       \* history: the output folder when this run began
    readFailed,        \* history: keys whose file a worker failed to read
    claimed,           \* history: times each input position was received
    received,          \* history: times its Result reached main
    requests,          \* history: GETs issued for each input position
    sentCount,         \* history: Results sent on resultQueue
    diskFaults,        \* environment: os.WriteFile can fail in this run
    call,              \* a function called on its own: its name and arguments
    ret                \* the values such calls have returned, in order

vars == <<gameNames, workerCountFlag, skipExistingFlag, files, mainPC, started,
          wgCount, jobQueue, jobClosed, dispatcherPC, dispatched, resultQueue,
          resultClosed, closerPC, worker, completedCount, successCount,
          failedCount, failedGameNames, panicked, run, filesBefore, readFailed,
          claimed, received, requests, sentCount, diskFaults, call, ret>>

Workers == 1..MaxWorkers

totalGames == Len(gameNames)

\* main.go:300-304
actualWorkerCount ==
    IF totalGames < workerCountFlag THEN totalGames ELSE workerCountFlag

\* main.go:307-308: make(chan ..., totalGames)
QueueCapacity == totalGames

NoResult == [job |-> 0, GameName |-> <<>>, GameID |-> 0, Success |-> FALSE,
             Error |-> nil]

\* main.go:183-187 and 213-217 (job: the input position, for the history)
SuccessResult(job, gameName, gameID) ==
    [job |-> job, GameName |-> gameName, GameID |-> gameID, Success |-> TRUE,
     Error |-> nil]

\* main.go:196-200 and 206-210
FailureResult(job, gameName, err) ==
    [job |-> job, GameName |-> gameName, GameID |-> 0, Success |-> FALSE,
     Error |-> err]

\* A goroutine's locals: the name it holds (by input position), gameID and
\* err as last assigned, and the GameResult that processSingleGame returns.
Unstarted == [pc |-> "unstarted", job |-> 0, gameID |-> 0, err |-> nil,
              result |-> NoResult]
Idle == [Unstarted EXCEPT !.pc = "idle"]

\* the worker's local gameName and steamFilePath (main.go:169-170)
NameOf(w) == gameNames[worker[w].job]
KeyOf(w) == sanitizeFilename(NameOf(w))

\* All input lists of 1..MaxN names (main.go:285 exits on an empty list).
QueryLists == UNION {[1..n -> Names] : n \in 1..MaxN}

\* No function is being called on its own.
NoCall == [fn |-> "none", gameName |-> <<>>, resp |-> <<>>]

\* main.go:306-335: no goroutine started yet, nothing counted
NothingStarted ==
    /\ started = 0
    /\ wgCount = 0
    /\ jobQueue = <<>>
    /\ jobClosed = FALSE
    /\ dispatcherPC = "unstarted"
    /\ dispatched = 0
    /\ resultQueue = <<>>
    /\ resultClosed = FALSE
    /\ closerPC = "unstarted"
    /\ worker = [w \in Workers |-> Unstarted]
    /\ completedCount = 0
    /\ successCount = 0
    /\ failedCount = 0
    /\ failedGameNames = <<>>
    /\ panicked = FALSE
    /\ readFailed = {}
    /\ claimed = [i \in 1..Len(gameNames) |-> 0]
    /\ received = [i \in 1..Len(gameNames) |-> 0]
    /\ requests = [i \in 1..Len(gameNames) |-> 0]
    /\ sentCount = 0

\* main.go:306-335: the state in which a run starts its pool
RunStart ==
    /\ mainPC = "startWorkers"
    /\ NothingStarted

Init ==
    /\ gameNames \in QueryLists
    /\ workerCountFlag \in -1..MaxWorkers
    /\ skipExistingFlag \in BOOLEAN
    /\ files \in [Keys -> InitialFiles]
    /\ diskFaults = TRUE
    /\ run = 1
    /\ filesBefore = files
    /\ call = NoCall
    /\ ret = <<>>
    /\ RunStart

\* The process runs until main returns or a goroutine panics.
Running == mainPC # "exited" /\ ~panicked

inputVars == <<gameNames, workerCountFlag, skipExistingFlag, run, filesBefore,
               diskFaults>>
callVars == <<call, ret>>
tallyVars == <<completedCount, successCount, failedCount, failedGameNames>>
chanVars == <<jobQueue, jobClosed, resultQueue, resultClosed>>
historyVars == <<readFailed, claimed, received, requests, sentCount>>

\* ------------------------------------------------------------------- main
\* main.go:312: the loop condition i < actualWorkerCount
MoreWorkersToStart == started < actualWorkerCount

\* main.go:312-315: one turn of the loop that starts the pool
StartWorker ==
    /\ Running
    /\ mainPC = "startWorkers"
    /\ MoreWorkersToStart
    /\ wgCount' = wgCount + 1
    /\ worker' = [worker EXCEPT ![started + 1] = Idle]
    /\ started' = started + 1
    /\ UNCHANGED <<callVars, inputVars, files, mainPC, chanVars, dispatcherPC, dispatched,
                   closerPC, tallyVars, panicked, historyVars>>

\* main.go:318-323: go func() { ... } that feeds the job queue
StartDispatcher ==
    /\ Running
    /\ mainPC = "startWorkers"
    /\ ~MoreWorkersToStart
    /\ dispatcherPC' = "sending"
    /\ mainPC' = "startCloser"
    /\ UNCHANGED <<callVars, inputVars, files, started, wgCount, chanVars, dispatched,
                   closerPC, worker, tallyVars, panicked, historyVars>>

\* main.go:326-329: go func() { ... } that closes the result queue
StartCloser ==
    /\ Running
    /\ mainPC = "startCloser"
    /\ closerPC' = "waiting"
    /\ mainPC' = "collect"
    /\ UNCHANGED <<callVars, inputVars, files, started, wgCount, chanVars, dispatcherPC,
                   dispatched, worker, tallyVars, panicked, historyVars>>

\* An aggregator that lists the failed names newest first (mutation of
\* Collect).
CollectNewestFirst ==
    /\ Running
    /\ mainPC = "collect"
    /\ resultQueue # <<>>
    /\ LET result == Head(resultQueue) IN
        /\ resultQueue' = Tail(resultQueue)
        /\ completedCount' = completedCount + 1
        /\ received' = [received EXCEPT ![result.job] = @ + 1]
        /\ IF result.Success
           THEN /\ successCount' = successCount + 1
                /\ UNCHANGED <<failedCount, failedGameNames>>
           ELSE /\ failedCount' = failedCount + 1
                /\ failedGameNames' = <<result.GameName>> \o failedGameNames
                /\ UNCHANGED successCount
    /\ UNCHANGED <<callVars, inputVars, files, mainPC, started, wgCount,
                   jobQueue, jobClosed, resultClosed, dispatcherPC, dispatched,
                   closerPC, worker, panicked, readFailed, claimed, requests,
                   sentCount>>

\* main.go:337-353: one turn of the loop over resultQueue
Collect ==
    /\ Running
    /\ mainPC = "collect"
    /\ resultQueue # <<>>
    /\ LET result == Head(resultQueue) IN
        /\ resultQueue' = Tail(resultQueue)
        /\ completedCount' = completedCount + 1
        /\ received' = [received EXCEPT ![result.job] = @ + 1]
        /\ IF result.Success
           THEN /\ successCount' = successCount + 1
                /\ UNCHANGED <<failedCount, failedGameNames>>
           ELSE /\ failedCount' = failedCount + 1
                /\ failedGameNames' = Append(failedGameNames, result.GameName)
                /\ UNCHANGED successCount
    /\ UNCHANGED <<callVars, inputVars, files, mainPC, started, wgCount, jobQueue,
                   jobClosed, resultClosed, dispatcherPC, dispatched, closerPC,
                   worker, panicked, readFailed, claimed, requests, sentCount>>

\* main.go:337: the range loop ends when resultQueue is closed and empty;
\* the summary is printed and main returns, which ends the process.
CollectEnd ==
    /\ Running
    /\ mainPC = "collect"
    /\ resultQueue = <<>>
    /\ resultClosed
    /\ mainPC' = "exited"
    /\ UNCHANGED <<callVars, inputVars, files, started, wgCount, chanVars, dispatcherPC,
                   dispatched, closerPC, worker, tallyVars, panicked,
                   historyVars>>

\* ------------------------------------------------------------- dispatcher
\* main.go:319-321: jobQueue <- gameName
DispatcherSend ==
    /\ Running
    /\ dispatcherPC = "sending"
    /\ dispatched < totalGames
    /\ Len(jobQueue) < QueueCapacity
    /\ jobQueue' = Append(jobQueue, dispatched + 1)
    /\ dispatched' = dispatched + 1
    /\ UNCHANGED <<callVars, inputVars, files, mainPC, started, wgCount, jobClosed,
                   resultQueue, resultClosed, dispatcherPC, closerPC, worker,
                   tallyVars, panicked, historyVars>>

\* main.go:322: close(jobQueue)
DispatcherClose ==
    /\ Running
    /\ dispatcherPC = "sending"
    /\ dispatched = totalGames
    /\ jobClosed' = TRUE
    /\ dispatcherPC' = "done"
    /\ UNCHANGED <<callVars, inputVars, files, mainPC, started, wgCount, jobQueue,
                   resultQueue, resultClosed, dispatched, closerPC, worker,
                   tallyVars, panicked, historyVars>>

\* ----------------------------------------------------------------- closer
\* A closer that does not wait for the workers (mutation of WaitReturns).
WaitReturnsAtOnce == TRUE

\* main.go:327: workerWaitGroup.Wait() returns when the counter is zero
WaitReturns == wgCount = 0

\* main.go:327-328
CloseResults ==
    /\ Running
    /\ closerPC = "waiting"
    /\ WaitReturns
    /\ resultClosed' = TRUE
    /\ closerPC' = "done"
    /\ UNCHANGED <<callVars, inputVars, files, mainPC, started, wgCount, jobQueue,
                   jobClosed, resultQueue, dispatcherPC, dispatched, worker,
                   tallyVars, panicked, historyVars>>

\* ---------------------------------------------------------------- workers
\* main.go:223: for gameName := range jobQueue, a name is there; then
\* main.go:224 calls processSingleGame, which goes to the cache check
\* (main.go:173) or straight to the query (main.go:194).
WorkerReceive(w) ==
    /\ Running
    /\ worker[w].pc = "idle"
    /\ jobQueue # <<>>
    /\ jobQueue' = Tail(jobQueue)
    /\ claimed' = [claimed EXCEPT ![Head(jobQueue)] = @ + 1]
    /\ worker' = [worker EXCEPT ![w] =
                    [@ EXCEPT !.pc = IF skipExistingFlag THEN "stat" ELSE "resolve",
                              !.job = Head(jobQueue)]]
    /\ UNCHANGED <<callVars, inputVars, files, mainPC, started, wgCount, jobClosed,
                   resultQueue, resultClosed, dispatcherPC, dispatched, closerPC,
                   tallyVars, panicked, readFailed, received, requests,
                   sentCount>>

\* main.go:223 with the queue closed and empty: the loop ends, and the
\* deferred waitGroup.Done() of main.go:222 runs.
WorkerExit(w) ==
    /\ Running
    /\ worker[w].pc = "idle"
    /\ jobQueue = <<>>
    /\ jobClosed
    /\ worker' = [worker EXCEPT ![w].pc = "done"]
    /\ wgCount' = wgCount - 1
    /\ UNCHANGED <<callVars, inputVars, files, mainPC, started, chanVars, dispatcherPC,
                   dispatched, closerPC, tallyVars, panicked, historyVars>>

\* main.go:174: os.Stat(steamFilePath); err == nil when the file is there
Stat(w) ==
    /\ Running
    /\ worker[w].pc = "stat"
    /\ worker' = [worker EXCEPT ![w] =
                    IF files[KeyOf(w)].exists
                    THEN [@ EXCEPT !.pc = "read"]
                    ELSE [@ EXCEPT !.pc = "resolve", !.err = <<"not exist">>]]
    /\ UNCHANGED <<callVars, inputVars, files, mainPC, started, wgCount, chanVars,
                   dispatcherPC, dispatched, closerPC, tallyVars, panicked,
                   historyVars>>

\* A scan that never succeeds (mutation of ReadErr).
ReadErrScanFails(readOK, content) ==
    IF ~readOK THEN <<"read error">> ELSE <<"scan error">>

\* main.go:179-182: err after os.ReadFile (readOK: it returned no error) and
\* the scan of what it returned
ReadErr(readOK, content) ==
    IF ~readOK THEN <<"read error">>
    ELSE IF ~Sscanf(content).ok THEN <<"scan error">>
    ELSE nil

\* A cache check that never answers from the record (mutation of
\* CachedResult).
CachedResultNever(job, gameName, err, content) == NoResult

\* A cache check that reports a record it cannot use as a failure
\* (mutation of CachedResult).
CachedResultFatal(job, gameName, err, content) ==
    IF err = nil
    THEN SuccessResult(job, gameName, Sscanf(content).value)
    ELSE FailureResult(job, gameName, err)

\* main.go:180-189: what the cache check returns: the Result with the id
\* scanned from the file, or NoResult to go on to the query
CachedResult(job, gameName, err, content) ==
    IF err = nil
    THEN SuccessResult(job, gameName, Sscanf(content).value)
    ELSE NoResult

\* main.go:179-191: os.ReadFile(steamFilePath) and the scan of its content
ReadFile(w) ==
    /\ Running
    /\ worker[w].pc = "read"
    /\ \E readOK \in BOOLEAN :
        LET content == files[KeyOf(w)].data
            err == ReadErr(readOK, content)
            result == CachedResult(worker[w].job, NameOf(w), err, content)
        IN  /\ worker' = [worker EXCEPT ![w] =
                    IF result # NoResult
                    THEN [@ EXCEPT !.pc = "send", !.err = err, !.result = result]
                    ELSE [@ EXCEPT !.pc = "resolve", !.err = err]]
            /\ readFailed' = IF readOK THEN readFailed
                             ELSE readFailed \cup {KeyOf(w)}
    /\ UNCHANGED <<callVars, inputVars, files, mainPC, started, wgCount, chanVars,
                   dispatcherPC, dispatched, closerPC, tallyVars, panicked,
                   claimed, received, requests, sentCount>>

\* A worker that asks again after an error (mutation of AfterResolve).
AfterResolveRetrying(wk, gameName, found) ==
    IF found.err # nil
    THEN [wk EXCEPT !.err = found.err]
    ELSE [wk EXCEPT !.pc = "open", !.err = nil, !.gameID = found.id]

\* main.go:194-201: the worker after findSteamGameID returned found = [id, err]
AfterResolve(wk, gameName, found) ==
    IF found.err # nil
    THEN [wk EXCEPT !.pc = "send", !.err = found.err,
                    !.result = FailureResult(wk.job, gameName, found.err)]
    ELSE [wk EXCEPT !.pc = "open", !.err = nil, !.gameID = found.id]

\* main.go:194: findSteamGameID(gameName, verbose), one GET
Resolve(w) ==
    /\ Running
    /\ worker[w].pc = "resolve"
    /\ requests' = [requests EXCEPT ![worker[w].job] = @ + 1]
    /\ \E resp \in Responses(NameOf(w)) :
        worker' = [worker EXCEPT ![w] =
            AfterResolve(@, NameOf(w), findSteamGameID(NameOf(w), resp))]
    /\ UNCHANGED <<callVars, inputVars, files, mainPC, started, wgCount, chanVars,
                   dispatcherPC, dispatched, closerPC, tallyVars, panicked,
                   readFailed, claimed, received, sentCount>>

\* A write whose error is dropped (mutation of WriteResult).
WriteResultIgnoringError(job, gameName, gameID, err) ==
    SuccessResult(job, gameName, gameID)

\* main.go:205-217: the Result after os.WriteFile returned err
WriteResult(job, gameName, gameID, err) ==
    IF err = nil
    THEN SuccessResult(job, gameName, gameID)
    ELSE FailureResult(job, gameName, <<"error writing file: ">> \o err)

\* What the open of os.WriteFile can do: succeed, or fail on a faulty disk.
OpenOutcomes == IF diskFaults THEN BOOLEAN ELSE {TRUE}

\* What the write of os.WriteFile can return.
WriteErrors == IF diskFaults THEN {nil, <<"write failed">>} ELSE {nil}

\* main.go:205: os.WriteFile, first half: the file is created or truncated,
\* or the open fails and os.WriteFile returns the error
OpenFile(w) ==
    /\ Running
    /\ worker[w].pc = "open"
    /\ \E ok \in OpenOutcomes :
        IF ok
        THEN /\ files' = [files EXCEPT ![KeyOf(w)] = OpenTruncate(@)]
             /\ worker' = [worker EXCEPT ![w].pc = "write"]
        ELSE /\ UNCHANGED files
             /\ worker' = [worker EXCEPT ![w] =
                    [@ EXCEPT !.pc = "send", !.err = <<"open failed">>,
                              !.result = WriteResult(worker[w].job, NameOf(w),
                                            worker[w].gameID, <<"open failed">>)]]
    /\ UNCHANGED <<callVars, inputVars, mainPC, started, wgCount, chanVars, dispatcherPC,
                   dispatched, closerPC, tallyVars, panicked, historyVars>>

\* main.go:204-205: os.WriteFile, second half: the decimal form of the id
\* is written at the start of the file, or the write fails
WriteFile(w) ==
    /\ Running
    /\ worker[w].pc = "write"
    /\ \E err \in WriteErrors :
        /\ files' = IF err = nil
                    THEN [files EXCEPT ![KeyOf(w)] =
                            WriteAtStart(@, FormatInt(worker[w].gameID))]
                    ELSE files
        /\ worker' = [worker EXCEPT ![w] =
                [@ EXCEPT !.pc = "send", !.err = err,
                          !.result = WriteResult(worker[w].job, NameOf(w),
                                                 worker[w].gameID, err)]]
    /\ UNCHANGED <<callVars, inputVars, mainPC, started, wgCount, chanVars, dispatcherPC,
                   dispatched, closerPC, tallyVars, panicked, historyVars>>

\* main.go:224: resultQueue <- result: it waits for room in the buffer;
\* a send on a closed channel panics
Send(w) ==
    /\ Running
    /\ worker[w].pc = "send"
    /\ resultClosed \/ Len(resultQueue) < QueueCapacity
    /\ IF resultClosed
       THEN /\ panicked' = TRUE
            /\ UNCHANGED <<resultQueue, sentCount, worker>>
       ELSE /\ resultQueue' = Append(resultQueue, worker[w].result)
            /\ sentCount' = sentCount + 1
            /\ worker' = [worker EXCEPT ![w] = Idle]
            /\ UNCHANGED panicked
    /\ UNCHANGED <<callVars, inputVars, files, mainPC, started, wgCount, jobQueue,
                   jobClosed, resultClosed, dispatcherPC, dispatched, closerPC,
                   tallyVars, readFailed, claimed, received, requests>>

\* ------------------------------------------------------- the specification
MainNext ==
    \/ StartWorker
    \/ StartDispatcher
    \/ StartCloser
    \/ Collect
    \/ CollectEnd

DispatcherNext ==
    \/ DispatcherSend
    \/ DispatcherClose

WorkerNext(w) ==
    \/ WorkerReceive(w)
    \/ WorkerExit(w)
    \/ Stat(w)
    \/ ReadFile(w)
    \/ Resolve(w)
    \/ OpenFile(w)
    \/ WriteFile(w)
    \/ Send(w)

Next ==
    \/ MainNext
    \/ DispatcherNext
    \/ CloseResults
    \/ \E w \in Workers : WorkerNext(w)

\* One run of the program, in every interleaving of its goroutines.
Spec == Init /\ [][Next]_vars

\* The Go scheduler runs every goroutine that can take a step, and every
\* call to the API and to the file system returns.
Fairness ==
    /\ WF_vars(MainNext)
    /\ WF_vars(DispatcherNext)
    /\ WF_vars(CloseResults)
    /\ \A w \in Workers : WF_vars(WorkerNext(w))

FairSpec == Spec /\ Fairness

\* The program is run again on the output folder the first run left, with
\* the same input and -skip-existing.
Rerun ==
    /\ mainPC = "exited"
    /\ run = 1
    /\ run' = 2
    /\ skipExistingFlag' = TRUE
    /\ filesBefore' = files
    /\ UNCHANGED <<gameNames, workerCountFlag, files, diskFaults, callVars>>
    /\ mainPC' = "startWorkers"
    /\ started' = 0
    /\ wgCount' = 0
    /\ jobQueue' = <<>>
    /\ jobClosed' = FALSE
    /\ dispatcherPC' = "unstarted"
    /\ dispatched' = 0
    /\ resultQueue' = <<>>
    /\ resultClosed' = FALSE
    /\ closerPC' = "unstarted"
    /\ worker' = [w \in Workers |-> Unstarted]
    /\ completedCount' = 0
    /\ successCount' = 0
    /\ failedCount' = 0
    /\ failedGameNames' = <<>>
    /\ panicked' = FALSE
    /\ readFailed' = {}
    /\ claimed' = [i \in 1..Len(gameNames) |-> 0]
    /\ received' = [i \in 1..Len(gameNames) |-> 0]
    /\ requests' = [i \in 1..Len(gameNames) |-> 0]
    /\ sentCount' = 0

NextTwoRuns ==
    \/ Next
    \/ Rerun

\* Two runs in a row.
SpecTwoRuns == Init /\ [][NextTwoRuns]_vars

\* ------------------------------------------------- main before the pool
\* Where main can leave through os.Exit before it starts the pool.  The
\* label tells the call; ExitStatus its argument.
ExitFlags == "exit: flag.Parse error"
ExitUsage == "exit: flag.Parse help"
ExitNoPath == "exit: no input path"
ExitNotFound == "exit: input not found"
ExitMkdir == "exit: output directory"
ExitUnreadable == "exit: input unreadable"
ExitNoNames == "exit: no game names"

EarlyExits == {ExitFlags, ExitUsage, ExitNoPath, ExitNotFound, ExitMkdir,
               ExitUnreadable, ExitNoNames}

\* The status the process ends with: flag.Parse (ExitOnError) exits 2 on a
\* flag it cannot parse and 0 after -h; main.go:252, 259, 265, 272, 287
\* exit 1; the return from main is status 0.
ExitStatus(pc) ==
    CASE pc = ExitFlags -> 2
      [] pc = ExitUsage -> 0
      [] pc \in EarlyExits \ {ExitFlags, ExitUsage} -> 1
      [] pc = "exited" -> 0

\* main.go:246: flag.Parse()
ParseFlags ==
    /\ mainPC = "parseFlags"
    /\ \E next \in {"checkArgs", ExitFlags, ExitUsage} : mainPC' = next
    /\ UNCHANGED <<callVars, inputVars, files, started, wgCount, chanVars,
                   dispatcherPC, dispatched, closerPC, worker, tallyVars,
                   panicked, historyVars>>

\* main.go:249-254: the input path is the first argument, if there is one
CheckArgs ==
    /\ mainPC = "checkArgs"
    /\ \E hasPath \in BOOLEAN :
        mainPC' = IF hasPath THEN "statInput" ELSE ExitNoPath
    /\ UNCHANGED <<callVars, inputVars, files, started, wgCount, chanVars,
                   dispatcherPC, dispatched, closerPC, worker, tallyVars,
                   panicked, historyVars>>

\* main.go:257-260: os.Stat(inputFilePath) and os.IsNotExist(err)
StatInput ==
    /\ mainPC = "statInput"
    /\ \E notExist \in BOOLEAN :
        mainPC' = IF notExist THEN ExitNotFound ELSE "mkdir"
    /\ UNCHANGED <<callVars, inputVars, files, started, wgCount, chanVars,
                   dispatcherPC, dispatched, closerPC, worker, tallyVars,
                   panicked, historyVars>>

\* main.go:263-266: os.MkdirAll(*outputDirectoryFlag, dirMode)
MkdirAll ==
    /\ mainPC = "mkdir"
    /\ \E ok \in BOOLEAN :
        mainPC' = IF ok THEN "readInput" ELSE ExitMkdir
    /\ UNCHANGED <<callVars, inputVars, files, started, wgCount, chanVars,
                   dispatcherPC, dispatched, closerPC, worker, tallyVars,
                   panicked, historyVars>>

\* A main that goes on with no name to resolve (mutation of ReadInput).
ReadInputKeepingEmpty ==
    /\ mainPC = "readInput"
    /\ \E readOK \in BOOLEAN :
        mainPC' = IF ~readOK THEN ExitUnreadable ELSE "startWorkers"
    /\ UNCHANGED <<callVars, inputVars, files, started, wgCount, chanVars,
                   dispatcherPC, dispatched, closerPC, worker, tallyVars,
                   panicked, historyVars>>

\* main.go:269-304: os.ReadFile(inputFilePath); its non-blank lines are
\* gameNames; with at least one of them main goes on to start the pool
ReadInput ==
    /\ mainPC = "readInput"
    /\ \E readOK \in BOOLEAN :
        mainPC' = IF ~readOK THEN ExitUnreadable
                  ELSE IF Len(gameNames) = 0 THEN ExitNoNames
                  ELSE "startWorkers"
    /\ UNCHANGED <<callVars, inputVars, files, started, wgCount, chanVars,
                   dispatcherPC, dispatched, closerPC, worker, tallyVars,
                   panicked, historyVars>>

StartupNext ==
    \/ ParseFlags
    \/ CheckArgs
    \/ StatInput
    \/ MkdirAll
    \/ ReadInput

\* The process from its first line, on an output folder with no .steam
\* file in it, whose disk is faulty or sound; the input file holds any
\* list of names, the empty one too.
InitFromStart ==
    /\ gameNames \in QueryLists \cup {<<>>}
    /\ workerCountFlag \in -1..MaxWorkers
    /\ skipExistingFlag \in BOOLEAN
    /\ files = [k \in Keys |-> NoFile]
    /\ diskFaults \in BOOLEAN
    /\ run = 1
    /\ filesBefore = files
    /\ call = NoCall
    /\ ret = <<>>
    /\ mainPC = "parseFlags"
    /\ NothingStarted

NextFromStart ==
    \/ StartupNext
    \/ Next

\* One run of the program from flag.Parse on.
SpecFromStart == InitFromStart /\ [][NextFromStart]_vars

\* --------------------------------------- the functions called on their own
\* Longest text given to sanitizeFilename (besides the example of README.md).
MaxText == 4

\* One character of each class that sanitizeFilename tells apart, and two
\* that it replaces.
Alphabet == {"a", "Z", "3", " ", "-", "_", ":", "\t"}

Texts == UNION {[1..n -> Alphabet] : n \in 0..MaxText}

Witcher == <<"T", "h", "e", " ", "W", "i", "t", "c", "h", "e", "r", " ", "3",
             ":", " ", "W", "i", "l", "d", " ", "H", "u", "n", "t">>

\* Every shape of answer to one GET: Get fails or not, a status, the body
\* arrives or not, parses or not, and holds no, one or two items.
AllResponses ==
    {Response(netErr, status, bodyErr, json, items) :
        netErr \in BOOLEAN, status \in {200, 404, 500}, bodyErr \in BOOLEAN,
        json \in BOOLEAN, items \in {<<>>, <<12>>, <<12, 999>>, <<400, 12>>}}

SanitizeCalls ==
    {[fn |-> "sanitizeFilename", gameName |-> t, resp |-> <<>>] :
        t \in Texts \cup {Witcher}}

FindCalls ==
    {[fn |-> "findSteamGameID", gameName |-> n, resp |-> r] :
        n \in {<<>>, <<"a">>}, r \in AllResponses}

\* main.go:169: sanitizedFilename := sanitizeFilename(gameName)
CallSanitize ==
    /\ call.fn = "sanitizeFilename"
    /\ ret = <<>>
    /\ ret' = <<sanitizeFilename(call.gameName)>>
    /\ UNCHANGED <<call, inputVars, files, mainPC, started, wgCount, chanVars,
                   dispatcherPC, dispatched, closerPC, worker, tallyVars,
                   panicked, historyVars>>

\* sanitizeFilename called on what it returned
CallSanitizeAgain ==
    /\ call.fn = "sanitizeFilename"
    /\ Len(ret) = 1
    /\ ret' = Append(ret, sanitizeFilename(ret[1]))
    /\ UNCHANGED <<call, inputVars, files, mainPC, started, wgCount, chanVars,
                   dispatcherPC, dispatched, closerPC, worker, tallyVars,
                   panicked, historyVars>>

\* main.go:194: gameID, err := findSteamGameID(gameName, verbose), the GET
\* answered by call.resp
CallFind ==
    /\ call.fn = "findSteamGameID"
    /\ ret = <<>>
    /\ ret' = <<findSteamGameID(call.gameName, call.resp)>>
    /\ UNCHANGED <<call, inputVars, files, mainPC, started, wgCount, chanVars,
                   dispatcherPC, dispatched, closerPC, worker, tallyVars,
                   panicked, historyVars>>

\* No program is running: one function is called with arguments of its
\* domain.
InitCalls ==
    /\ call \in SanitizeCalls \cup FindCalls
    /\ ret = <<>>
    /\ gameNames = <<>>
    /\ workerCountFlag = 0
    /\ skipExistingFlag = FALSE
    /\ files = [k \in Keys |-> NoFile]
    /\ diskFaults = FALSE
    /\ run = 1
    /\ filesBefore = files
    /\ mainPC = "none"
    /\ NothingStarted

NextCalls ==
    \/ CallSanitize
    \/ CallSanitizeAgain
    \/ CallFind

SpecCalls == InitCalls /\ [][NextCalls]_vars

\* ---------------------------------------------------------- the claims
InputPositions == 1..totalGames

RECURSIVE SumUpTo(_, _)
SumUpTo(f, n) == IF n = 0 THEN 0 ELSE f[n] + SumUpTo(f, n - 1)

\* the number of names received from the job queue so far
ClaimedTotal == SumUpTo(claimed, totalGames)

\* the workers that hold a name: received, its Result not yet sent
Busy == {w \in Workers :
            worker[w].pc \in {"stat", "read", "resolve", "open", "write", "send"}}

\* main has left the loop that starts the pool
PoolStarted == mainPC # "startWorkers"

MinOf(a, b) == IF a < b THEN a ELSE b

KeyAt(i) == sanitizeFilename(gameNames[i])

\* a record that is there and whose content scans as an integer
Clean(file) == file.exists /\ Sscanf(file.data).ok

IsPrefix(p, s) == Len(p) <= Len(s) /\ SubSeq(s, 1, Len(p)) = p

\* C1: when the loop over resultQueue has ended, main has consumed exactly
\* N Results and successCount + failedCount = N.  Fails with -workers 0.
C1_AllResultsConsumed ==
    mainPC = "exited" =>
        /\ completedCount = totalGames
        /\ successCount + failedCount = totalGames

\* C1, with the worker count the spec asks for (a positive integer).
C1_AllResultsConsumedByAPool ==
    workerCountFlag >= 1 => C1_AllResultsConsumed

\* C2: every input position is received from the job queue by one worker,
\* once, and its Result reaches main once: never twice, and once main is
\* through its loop, exactly once.  Fails with -workers 0.
C2_ExactlyOnce ==
    /\ \A i \in InputPositions :
        /\ claimed[i] <= 1
        /\ received[i] <= claimed[i]
        /\ Cardinality({w \in Workers : worker[w].job = i}) <= 1
        /\ Cardinality({k \in 1..Len(resultQueue) : resultQueue[k].job = i}) <= 1
    /\ mainPC = "exited" =>
        \A i \in InputPositions : claimed[i] = 1 /\ received[i] = 1

\* C2, with the worker count the spec asks for (a positive integer).
C2_ExactlyOnceByAPool ==
    workerCountFlag >= 1 => C2_ExactlyOnce

\* C3: under fair scheduling the result queue is eventually closed, main's
\* loop eventually ends, and by then every input position has yielded its
\* one Result.  Fails with -workers 0.
C3_EveryQueryYieldsAResult ==
    <>(/\ mainPC = "exited"
       /\ resultClosed
       /\ \A i \in InputPositions : received[i] = 1)

\* C3, with the worker count the spec asks for: nothing blocks for ever.
C3_EveryQueryYieldsAResultByAPool ==
    <>(/\ mainPC = "exited"
       /\ resultClosed
       /\ workerCountFlag >= 1 =>
            /\ \A i \in InputPositions : received[i] = 1
            /\ jobClosed /\ jobQueue = <<>>
            /\ \A w \in 1..started : worker[w].pc = "done")

\* C4: the pool has exactly min(configuredWorkers, N) workers, and never
\* more than that many names are being processed.  Fails with -workers -1.
C4_PoolIsMinOfFlagAndN ==
    PoolStarted =>
        /\ started = MinOf(workerCountFlag, totalGames)
        /\ Cardinality(Busy) <= MinOf(workerCountFlag, totalGames)

\* C4, with the worker count the spec asks for (a positive integer).
C4_PoolIsMinOfFlagAndNPositive ==
    workerCountFlag >= 1 => C4_PoolIsMinOfFlagAndN

\* C5: with a non-empty input list main starts at least one worker,
\* whatever value -workers has.  Fails with -workers 0.
C5_AtLeastOneWorker ==
    PoolStarted => started >= 1

\* C6: the result queue is closed only when every worker started has left
\* its loop (the job queue closed and drained, if there is any worker) and
\* every name received has had its Result sent; no send finds it closed.
C6_ClosedOnlyAfterAllSent ==
    /\ ~panicked
    /\ resultClosed =>
        /\ PoolStarted
        /\ \A w \in Workers : worker[w].pc \in {"unstarted", "done"}
        /\ \A w \in 1..started : worker[w].pc = "done"
        /\ started >= 1 => jobClosed /\ jobQueue = <<>>
        /\ sentCount = ClaimedTotal

\* C6 witness: closed after two workers have sent two Results
C6_Witness ==
    resultClosed /\ started = 2 /\ sentCount = 2

\* C7 as stated: a cache check that finds a record whose content scans as
\* an integer returns success with that integer, has issued no request and
\* writes nothing.  Fails when os.ReadFile returns an error.
C7_ExistingRecordIsAHit ==
    [][\A w \in Workers :
        (/\ worker[w].pc = "read"
         /\ worker'[w].pc # "read"
         /\ Sscanf(files[KeyOf(w)].data).ok)
        => /\ worker'[w].pc = "send"
           /\ worker'[w].result =
                SuccessResult(worker[w].job, NameOf(w),
                              Sscanf(files[KeyOf(w)].data).value)
           /\ requests'[worker[w].job] = 0
           /\ files' = files]_vars

\* C7 amended: a cache check whose read succeeds and returns content that
\* scans as an integer returns success with that integer, has issued no
\* request and writes nothing.
C7_CleanReadIsAHit ==
    [][\A w \in Workers :
        (/\ worker[w].pc = "read"
         /\ worker'[w].pc # "read"
         /\ worker'[w].err # <<"read error">>
         /\ Sscanf(files[KeyOf(w)].data).ok)
        => /\ worker'[w].pc = "send"
           /\ worker'[w].result =
                SuccessResult(worker[w].job, NameOf(w),
                              Sscanf(files[KeyOf(w)].data).value)
           /\ requests'[worker[w].job] = 0
           /\ files' = files]_vars

\* C7 witness: a Result that came from the record, with no request made
C7_Witness ==
    \E w \in Workers :
        /\ skipExistingFlag
        /\ worker[w].pc = "send"
        /\ worker[w].result.Success
        /\ worker[w].result.GameID = Sscanf(files[KeyOf(w)].data).value
        /\ requests[worker[w].job] = 0

\* C8: a record that cannot be read, or whose content is no integer, is a
\* miss and no failure: no Result is made of it, nothing is written, and
\* the worker goes on to the query in the state in which a call without
\* -skip-existing makes it (no id, no Result), where its next step is the
\* request.
C8_UnusableRecordIsAMiss ==
    [][\A w \in Workers :
        /\ (/\ worker[w].pc = "read"
            /\ worker'[w].pc # "read"
            /\ \/ worker'[w].err = <<"read error">>
               \/ ~Sscanf(files[KeyOf(w)].data).ok)
           => /\ worker'[w].pc = "resolve"
              /\ worker'[w].job = worker[w].job
              /\ files' = files
              /\ resultQueue' = resultQueue
              /\ requests' = requests
        /\ worker'[w].pc = "resolve"
           => /\ worker'[w].result = NoResult
              /\ worker'[w].gameID = 0
        /\ (worker[w].pc = "resolve" /\ worker'[w] # worker[w])
           => requests'[worker[w].job] = requests[worker[w].job] + 1]_vars

\* C8 witness: a record that was no number is being rewritten after a
\* fresh resolution
C8_Witness ==
    \E w \in Workers :
        /\ skipExistingFlag
        /\ worker[w].pc = "write"
        /\ filesBefore[KeyOf(w)] = File(<<"x">>)
        /\ requests[worker[w].job] = 1

\* C9 as stated: the second run leaves every record as it was and issues
\* no request for a name whose record was there and scanned as an integer.
\* Fails for a record that is no number, and when a read fails.
C9_SecondRunChangesNothing ==
    run = 2 =>
        /\ \A k \in Keys : filesBefore[k].exists => files[k] = filesBefore[k]
        /\ \A i \in InputPositions :
            Clean(filesBefore[KeyAt(i)]) => requests[i] = 0

\* C9 amended: the second run leaves as it was every record that scanned
\* as an integer before it and that no worker failed to read, and issues
\* no request for a name with such a record.
C9_CleanRecordsSurvive ==
    run = 2 =>
        \A k \in Keys :
            (Clean(filesBefore[k]) /\ k \notin readFailed)
            => /\ files[k] = filesBefore[k]
               /\ \A i \in InputPositions : KeyAt(i) = k => requests[i] = 0

\* C9 witness: the second run has ended, and a name whose record the first
\* run wrote was answered from it
C9_Witness ==
    /\ run = 2
    /\ mainPC = "exited"
    /\ \E i \in InputPositions :
        /\ filesBefore[KeyAt(i)] = File(FormatInt(CatalogId(gameNames[i])))
        /\ files = filesBefore
        /\ received[i] = 1
        /\ requests[i] = 0

\* C10: an error of the query makes a failure with that error and leaves
\* the files alone; an error of os.WriteFile makes a failure that wraps
\* it; a success after a query has the resolved id, whose decimal form the
\* step that made it wrote at the start of the file.
C10_ResolvePathResult ==
    [][\A w \in Workers :
        /\ (worker[w].pc = "resolve" /\ worker'[w].pc # "resolve")
           => IF worker'[w].err # nil
              THEN /\ worker'[w].pc = "send"
                   /\ worker'[w].result =
                        FailureResult(worker[w].job, NameOf(w), worker'[w].err)
                   /\ files' = files
              ELSE /\ worker'[w].pc = "open"
                   /\ worker'[w].result = NoResult
                   /\ files' = files
        /\ (worker[w].pc \in {"open", "write"} /\ worker'[w].pc = "send")
           => IF worker'[w].err # nil
              THEN /\ ~worker'[w].result.Success
                   /\ worker'[w].result.Error =
                        <<"error writing file: ">> \o worker'[w].err
                   /\ worker'[w].result.GameName = NameOf(w)
              ELSE /\ worker[w].pc = "write"
                   /\ worker'[w].result =
                        SuccessResult(worker[w].job, NameOf(w), worker[w].gameID)
                   /\ IsPrefix(FormatInt(worker[w].gameID),
                               files'[KeyOf(w)].data)
        /\ (worker[w].pc = "send" /\ worker'[w] # worker[w])
           => files' = files]_vars

\* C10 witness: the id was resolved, the write failed, the Result is a
\* failure
C10_Witness ==
    \E w \in Workers :
        /\ worker[w].pc = "send"
        /\ worker[w].gameID = CatalogId(NameOf(w))
        /\ worker[w].err = <<"write failed">>
        /\ ~worker[w].result.Success

\* ------------------------------------------------------------ C11 .. C20
Range(seq) == {seq[i] : i \in 1..Len(seq)}

\* C11: findSteamGameID gives each response one outcome, looked for in this
\* order: Get failed: the network error; a status other than 200: the HTTP
\* error with that status; a body that cannot be used: an error (of the
\* network when it did not arrive, of the decoder when it is no JSON); no
\* item: "no results found"; else the id of the first item and no error.
C11_ClassifiedInOrder ==
    (call.fn = "findSteamGameID" /\ call.gameName # <<>> /\ Len(ret) = 1) =>
        LET resp == call.resp
            out == ret[1]
        IN  IF resp.netErr
            THEN out = [id |-> 0, err |-> <<"network">>]
            ELSE IF resp.status # 200
            THEN out = [id |-> 0,
                        err |-> <<"HTTP error: ">> \o FormatInt(resp.status)]
            ELSE IF resp.bodyErr
            THEN out.id = 0 /\ out.err \in {<<"network">>, <<"decode">>}
            ELSE IF ~resp.json
            THEN out = [id |-> 0, err |-> <<"decode">>]
            ELSE IF resp.items = <<>>
            THEN out = [id |-> 0, err |-> <<"no results found">>]
            ELSE out = [id |-> Head(resp.items), err |-> nil]

\* C11 witness: a 500 whose body is JSON with items is an HTTP error
C11_Witness ==
    /\ call.fn = "findSteamGameID"
    /\ call.resp = Response(FALSE, 500, FALSE, TRUE, <<12, 999>>)
    /\ ret = <<[id |-> 0, err |-> <<"HTTP error: ", "5", "0", "0">>]>>

\* C12: no input position has more than one request made for it, whatever
\* the request ends with; so a run makes at most N requests.
C12_AtMostOneRequest ==
    /\ \A i \in InputPositions : requests[i] <= 1
    /\ SumUpTo(requests, totalGames) <= totalGames

\* C12 witness: a run of two names has ended, both requests failed, and
\* each name had its one request
C12_Witness ==
    /\ mainPC = "exited"
    /\ totalGames = 2
    /\ failedCount = 2
    /\ \A i \in InputPositions : requests[i] = 1

WitcherKey == <<"T", "h", "e", "_", "W", "i", "t", "c", "h", "e", "r", "_", "3",
                "_", "W", "i", "l", "d", "_", "H", "u", "n", "t">>

\* C13: what sanitizeFilename returns holds only letters, digits, space,
\* hyphen and underscore, neither starts nor ends with an underscore, and
\* has no two neighbours that are space or underscore; and "The Witcher 3:
\* Wild Hunt" gives "The_Witcher_3_Wild_Hunt".
C13_SanitizedShape ==
    (call.fn = "sanitizeFilename" /\ Len(ret) >= 1) =>
        LET out == ret[1] IN
        /\ \A i \in 1..Len(out) :
                out[i] \in LowerCase \cup UpperCase \cup DigitChars
                                     \cup {" ", "-", "_"}
        /\ out # <<>> => out[1] # "_" /\ out[Len(out)] # "_"
        /\ \A i \in 1..(Len(out) - 1) :
                ~(out[i] \in {" ", "_"} /\ out[i + 1] \in {" ", "_"})
        /\ call.gameName = Witcher => out = WitcherKey

\* C13 witness: the example has been sanitized
C13_Witness ==
    /\ call.fn = "sanitizeFilename"
    /\ call.gameName = Witcher
    /\ ret = <<WitcherKey>>

\* the names of the input are pairwise distinct
DistinctNames ==
    \A i, j \in InputPositions : i # j => gameNames[i] # gameNames[j]

\* the keys of the names of the input are pairwise distinct
DistinctKeys ==
    \A i, j \in InputPositions : i # j => KeyAt(i) # KeyAt(j)

\* two names of the input have one key only when they are the same name
OnlyEqualNamesShareAKey ==
    \A i, j \in InputPositions : KeyAt(i) = KeyAt(j) => gameNames[i] = gameNames[j]

\* the worker is inside os.WriteFile: the file is open, the write to come
InWrite(w) == worker[w].pc = "write"

\* the worker has found the file and is about to read it
InRead(w) == worker[w].pc = "read"

\* one worker writes a file that another writes or reads
SameFile(w1, w2) ==
    /\ w1 # w2
    /\ InWrite(w1)
    /\ InWrite(w2) \/ InRead(w2)
    /\ KeyOf(w1) = KeyOf(w2)

\* C14: with pairwise distinct names in the input, no two workers are ever
\* on the same record file, one writing and the other writing or reading.
\* Fails for the names "a" and "a:", whose key is the same.
C14_DistinctNamesNeverShareAFile ==
    DistinctNames => \A w1, w2 \in Workers : ~SameFile(w1, w2)

\* C14, for names whose keys are pairwise distinct.
C14_DistinctKeysNeverShareAFile ==
    DistinctKeys => \A w1, w2 \in Workers : ~SameFile(w1, w2)

\* main is where it starts the pool, or beyond
PastStartup == mainPC \in {"startWorkers", "startCloser", "collect", "exited"}

\* the process has ended: through os.Exit, or by the return of main
Ended == mainPC \in EarlyExits \cup {"exited"}

\* no worker or other goroutine was started, no request made, no file
\* written
NoWorkDone ==
    /\ started = 0
    /\ \A w \in Workers : worker[w] = Unstarted
    /\ dispatcherPC = "unstarted"
    /\ closerPC = "unstarted"
    /\ \A i \in InputPositions : requests[i] = 0 /\ claimed[i] = 0
    /\ files = filesBefore

\* the exits the claim names: the input is not there, cannot be read or
\* holds no name; the output directory cannot be made
InputOrOutputExits == {ExitNotFound, ExitUnreadable, ExitNoNames, ExitMkdir}

\* C15 as stated: the run ends with a status other than zero exactly when
\* the input gives no name or the output directory cannot be made; such a
\* run has done no work; every other run stops only at the end of main,
\* with status zero.  Fails for a command line that flag.Parse rejects or
\* that names no input file.
C15_FatalOnlyForInputOrOutput ==
    /\ ~panicked
    /\ mainPC \in InputOrOutputExits => NoWorkDone
    /\ PastStartup => totalGames >= 1
    /\ Ended => (ExitStatus(mainPC) # 0 <=> mainPC \in InputOrOutputExits)
    /\ ~(ENABLED NextFromStart) => mainPC \in InputOrOutputExits \cup {"exited"}

\* C15 amended: the run ends before the pool is started exactly when the
\* command line is rejected or asks for the usage, names no input file,
\* the input gives no name, or the output directory cannot be made; such a
\* run has done no work, and its status is not zero unless it was asked
\* for the usage; every other run stops only at the end of main, with
\* status zero.
C15_StopsOnlyBeforeThePool ==
    /\ ~panicked
    /\ mainPC \in EarlyExits => NoWorkDone
    /\ PastStartup => totalGames >= 1
    /\ Ended => (ExitStatus(mainPC) # 0 <=> mainPC \in EarlyExits \ {ExitUsage})
    /\ ~(ENABLED NextFromStart) => Ended

\* C15 witness: the input file held no name, and main left before the pool
C15_Witness ==
    /\ mainPC = ExitNoNames
    /\ gameNames = <<>>
    /\ NoWorkDone

\* the run of C16: no -skip-existing, an empty output folder, a sound disk,
\* names with keys of their own
EndToEndRun ==
    /\ ~skipExistingFlag
    /\ ~diskFaults
    /\ \A k \in Keys : filesBefore[k] = NoFile
    /\ DistinctKeys

\* the input positions whose record is in the output folder
Recorded == {i \in InputPositions : files[KeyAt(i)].exists}

\* C16: when such a run has ended, every name either has its record, named
\* by its key and holding the decimal form of the first id returned for
\* it, and is no failure, or has no record and is in the list of failures;
\* the files are those records and no other; successCount counts the
\* records and failedCount the failures.  Fails with -workers 0.
C16_EndToEnd ==
    (mainPC = "exited" /\ EndToEndRun) =>
        /\ \A i \in InputPositions :
            \/ /\ files[KeyAt(i)] = File(FormatInt(CatalogId(gameNames[i])))
               /\ gameNames[i] \notin Range(failedGameNames)
            \/ /\ files[KeyAt(i)] = NoFile
               /\ gameNames[i] \in Range(failedGameNames)
        /\ \A k \in Keys : files[k].exists => \E i \in InputPositions : KeyAt(i) = k
        /\ successCount = Cardinality(Recorded)
        /\ failedCount = totalGames - Cardinality(Recorded)
        /\ Len(failedGameNames) = failedCount

\* C16, with the worker count the spec asks for (a positive integer).
C16_EndToEndByAPool ==
    workerCountFlag >= 1 => C16_EndToEnd

\* C17: the tallies add up in every state; a step that consumes a Result
\* counts it once, a failure adds its name at the end of failedGameNames
\* and a success leaves failedCount and failedGameNames as they are; no
\* other step of a run changes a tally.
C17_TalliesFollowTheResults ==
    /\ [](/\ successCount + failedCount = completedCount
          /\ Len(failedGameNames) = failedCount)
    /\ [][IF /\ mainPC = "collect"
             /\ resultQueue # <<>>
             /\ resultQueue' = Tail(resultQueue)
          THEN /\ completedCount' = completedCount + 1
               /\ IF Head(resultQueue).Success
                  THEN /\ successCount' = successCount + 1
                       /\ failedCount' = failedCount
                       /\ failedGameNames' = failedGameNames
                  ELSE /\ successCount' = successCount
                       /\ failedCount' = failedCount + 1
                       /\ failedGameNames' =
                            failedGameNames \o <<Head(resultQueue).GameName>>
          ELSE tallyVars' = tallyVars]_vars

\* C17 witness: two names failed, and the one later in the input was
\* consumed first
C17_Witness ==
    /\ totalGames = 2
    /\ gameNames[1] # gameNames[2]
    /\ failedGameNames = <<gameNames[2], gameNames[1]>>
    /\ completedCount = 2

\* the ids that the writes to the record of key k can hold
IdsWrittenTo(k) ==
    {FormatInt(CatalogId(gameNames[i])) : i \in {j \in InputPositions : KeyAt(j) = k}}

\* C18: when a run on a sound disk has ended, each record holds exactly the
\* decimal form of the id of a write to its key (the last one, by the
\* claim): no mixture of two, nothing empty or partial.  Fails for the
\* names "a" and "a:": the ids 400 and 12 leave "120".
C18_NeverAMixture ==
    (mainPC = "exited" /\ ~diskFaults) =>
        \A k \in Keys : files[k].exists => files[k].data \in IdsWrittenTo(k)

\* C18, for inputs in which only equal names share a key.
C18_NeverAMixtureWithoutCollision ==
    OnlyEqualNamesShareAKey => C18_NeverAMixture

\* C19: sanitizeFilename called on what it returned returns the same.
C19_SanitizeTwiceIsOnce ==
    (call.fn = "sanitizeFilename" /\ Len(ret) = 2) => ret[2] = ret[1]

\* C19 witness: a text with characters to replace, to collapse and to trim
\* was sanitized twice
C19_Witness ==
    /\ call.gameName = <<":", "a", " ", "_">>
    /\ ret = <<<<"a">>, <<"a">>>>

\* the Results made and not yet consumed
ResultsInFlight ==
    {worker[w].result : w \in {v \in Workers : worker[v].pc = "send"}}
        \cup Range(resultQueue)

\* C20: in a run that begins with an empty output folder, every success
\* Result holds the id that the API returns for its own name.  Fails with
\* -skip-existing for the names "a" and "a:": the second is answered from
\* the record of the first.
C20_ResultHasItsOwnId ==
    \A result \in ResultsInFlight :
        result.Success => result.GameID = CatalogId(result.GameName)

\* C20, for inputs in which only equal names share a key.
C20_ResultHasItsOwnIdWithoutCollision ==
    OnlyEqualNamesShareAKey => C20_ResultHasItsOwnId

====
